---- MODULE Spec2Model ----
(***************************************************************************)
(* Little Alchemy (src/main.cpp): the element catalog, the combination     *)
(* registry, the world-object registry and the pointer-event handling of   *)
(* Game::handleEvents, Game::checkCollisions and Game::update.             *)
(*                                                                         *)
(* The pointer events modelled are the ones that reach the game's own      *)
(* input handling (main.cpp:740-815), i.e. the events seen while the       *)
(* element book is closed; the book and the scroll wheel are not modelled, *)
(* and of Game::draw only its place in the frame loop of Game::run.  Times *)
(* are whole clock units, one unit = one second.                           *)
(***************************************************************************)
EXTENDS Integers, Sequences, FiniteSets, TLC

VARIABLES
    elements,        \* Game::elements: the catalog, in construction order
    objects,         \* Game::objects: the instances in the world, in insertion order
    draggingObject,  \* Game::draggingObject: where the pointer points, see NoObject
    invalidMarkTime, \* Game::invalidMarkTime
    invalidMarkPos,  \* Game::invalidMarkPos
    clock,           \* Game::clock, the elapsed time last read
    created,         \* history: how many instances were ever made
    last,            \* history: the last event handled and what it did
    query,           \* the last lookup made on the combination registry alone
    maxObjects,      \* Game::maxObjects, fixed when the game is constructed
    play,            \* the player: the next event of the scripted game, 0 = free play
    frame            \* Game::run: the statement of the frame loop to run next, see AtEvents

vars == <<elements, objects, draggingObject, invalidMarkTime, invalidMarkPos,
          clock, created, last, query, maxObjects, play, frame>>

----------------------------------------------------------------------------
(* Bounds of the model.                                                    *)

\* Game::maxObjects is 50 in the source (main.cpp:550); the model runs the
\* same code with a small capacity so that a full registry is reachable.
Capacity == 3
\* The capacity of the game that is played to discover every element: the
\* least one that leaves room for two derived ingredients to be made.
DiscoverCapacity == 4
\* Sidebar spawns are offered while fewer instances than this were ever made.
MaxCreated == 3
\* The clock stops advancing here.
MaxTime == 2
\* The sidebar buttons pressed are the first MaxButton + 1 shown ones.
MaxButton == 1
\* Registries handed to update() alone hold up to maxObjects + MaxOver instances.
MaxOver == 2

----------------------------------------------------------------------------
(* Geometry: sf::Rect, the sprites, the fixed screen regions.              *)

\* Side of an instance's sprite: the drag anchor (25, 25) "centers the sprite
\* on the mouse" (main.cpp:814), so the scaled sprite is 50 x 50.
SpriteSize == 50
\* Game::sidebarScroll; scroll-wheel events are not modelled.
sidebarScroll == 0
WindowHeight == 600

Min(a, b) == IF a < b THEN a ELSE b
Max(a, b) == IF a > b THEN a ELSE b

Rect(l, t, w, h) == [left |-> l, top |-> t, width |-> w, height |-> h]

\* sf::Rect::contains: the right and bottom edges are excluded.
Contains(r, p) ==
    /\ p[1] >= r.left /\ p[1] < r.left + r.width
    /\ p[2] >= r.top  /\ p[2] < r.top + r.height

\* sf::Rect::intersects: the intersection has a positive area.
Intersects(a, b) ==
    /\ Max(a.left, b.left) < Min(a.left + a.width, b.left + b.width)
    /\ Max(a.top, b.top) < Min(a.top + a.height, b.top + b.height)

\* sprite.getGlobalBounds() of an instance
Bounds(o) == Rect(o.pos[1], o.pos[2], SpriteSize, SpriteSize)

\* trashBin: 64 x 64 at (10, window height - 74)
TrashBounds == Rect(10, WindowHeight - 74, 64, 64)

\* (a + b) / 2.0f; every position of the model has even coordinates
Midpoint(a, b) == <<(a[1] + b[1]) \div 2, (a[2] + b[2]) \div 2>>

SpawnPos == <<400, 300>>
DragAnchor == <<25, 25>>

----------------------------------------------------------------------------
(* The element catalog and the combination registry.                       *)

\* A catalog that lacks an element the combinations name.
ElementNamesNoSteam ==
    << "Fire", "Water", "Earth", "Air",
       "Lava", "Smoke", "Mud", "Mist", "Dust",
       "Energy", "Ocean", "Mountain", "Wind",
       "Cloud", "Rain", "Plant", "Stone", "Volcano", "Lightning",
       "Ice", "Sand", "Swamp", "Forest", "Desert", "Life" >>

\* Game::elements, by name, in the order of the constructor
ElementNames ==
    << "Fire", "Water", "Earth", "Air",
       "Steam", "Lava", "Smoke", "Mud", "Mist", "Dust",
       "Energy", "Ocean", "Mountain", "Wind",
       "Cloud", "Rain", "Plant", "Stone", "Volcano", "Lightning",
       "Ice", "Sand", "Swamp", "Forest", "Desert", "Life" >>

NumPrimitives == 4

\* Element::Element: creationCount starts at 0
Element(n, disc) == [discovered |-> disc, creationCount |-> 0]

\* Game::Game: the four basic elements are discovered, the others are not
InitElements ==
    [i \in 1..Len(ElementNames) |-> Element(ElementNames[i], i <= NumPrimitives)]

\* index of the catalog entry with this name, 0 when there is none
ElemIndex(n) ==
    IF \E i \in 1..Len(ElementNames) : ElementNames[i] = n
    THEN CHOOSE i \in 1..Len(ElementNames) : ElementNames[i] = n
    ELSE 0

\* the catalog entries the instances of the model are of
Fire   == ElemIndex("Fire")
Water  == ElemIndex("Water")
Steam  == ElemIndex("Steam")
Energy == ElemIndex("Energy")

\* A combination table missing one reverse entry.
combinationsOneWay ==
    (<<"Fire", "Water">> :> "Steam") @@ (<<"Water", "Fire">> :> "Steam") @@
    (<<"Fire", "Earth">> :> "Lava") @@ (<<"Earth", "Fire">> :> "Lava") @@
    (<<"Fire", "Air">> :> "Smoke") @@ (<<"Air", "Fire">> :> "Smoke") @@
    (<<"Water", "Earth">> :> "Mud") @@ (<<"Earth", "Water">> :> "Mud") @@
    (<<"Water", "Air">> :> "Mist") @@ (<<"Air", "Water">> :> "Mist") @@
    (<<"Earth", "Air">> :> "Dust") @@ (<<"Air", "Earth">> :> "Dust") @@
    (<<"Fire", "Fire">> :> "Energy") @@
    (<<"Water", "Water">> :> "Ocean") @@
    (<<"Earth", "Earth">> :> "Mountain") @@
    (<<"Air", "Air">> :> "Wind") @@
    (<<"Steam", "Air">> :> "Cloud") @@
    (<<"Cloud", "Water">> :> "Rain") @@ (<<"Water", "Cloud">> :> "Rain") @@
    (<<"Mud", "Energy">> :> "Plant") @@ (<<"Energy", "Mud">> :> "Plant") @@
    (<<"Lava", "Air">> :> "Stone") @@ (<<"Air", "Lava">> :> "Stone") @@
    (<<"Lava", "Mountain">> :> "Volcano") @@ (<<"Mountain", "Lava">> :> "Volcano") @@
    (<<"Energy", "Air">> :> "Lightning") @@ (<<"Air", "Energy">> :> "Lightning") @@
    (<<"Water", "Wind">> :> "Ice") @@ (<<"Wind", "Water">> :> "Ice") @@
    (<<"Stone", "Wind">> :> "Sand") @@ (<<"Wind", "Stone">> :> "Sand") @@
    (<<"Mud", "Plant">> :> "Swamp") @@ (<<"Plant", "Mud">> :> "Swamp") @@
    (<<"Plant", "Plant">> :> "Forest") @@
    (<<"Sand", "Sand">> :> "Desert") @@
    (<<"Energy", "Plant">> :> "Life") @@ (<<"Plant", "Energy">> :> "Life")

\* CombinationRegistry::combinations as filled by the constructor
combinations ==
    (<<"Fire", "Water">> :> "Steam") @@ (<<"Water", "Fire">> :> "Steam") @@
    (<<"Fire", "Earth">> :> "Lava") @@ (<<"Earth", "Fire">> :> "Lava") @@
    (<<"Fire", "Air">> :> "Smoke") @@ (<<"Air", "Fire">> :> "Smoke") @@
    (<<"Water", "Earth">> :> "Mud") @@ (<<"Earth", "Water">> :> "Mud") @@
    (<<"Water", "Air">> :> "Mist") @@ (<<"Air", "Water">> :> "Mist") @@
    (<<"Earth", "Air">> :> "Dust") @@ (<<"Air", "Earth">> :> "Dust") @@
    (<<"Fire", "Fire">> :> "Energy") @@
    (<<"Water", "Water">> :> "Ocean") @@
    (<<"Earth", "Earth">> :> "Mountain") @@
    (<<"Air", "Air">> :> "Wind") @@
    (<<"Steam", "Air">> :> "Cloud") @@ (<<"Air", "Steam">> :> "Cloud") @@
    (<<"Cloud", "Water">> :> "Rain") @@ (<<"Water", "Cloud">> :> "Rain") @@
    (<<"Mud", "Energy">> :> "Plant") @@ (<<"Energy", "Mud">> :> "Plant") @@
    (<<"Lava", "Air">> :> "Stone") @@ (<<"Air", "Lava">> :> "Stone") @@
    (<<"Lava", "Mountain">> :> "Volcano") @@ (<<"Mountain", "Lava">> :> "Volcano") @@
    (<<"Energy", "Air">> :> "Lightning") @@ (<<"Air", "Energy">> :> "Lightning") @@
    (<<"Water", "Wind">> :> "Ice") @@ (<<"Wind", "Water">> :> "Ice") @@
    (<<"Stone", "Wind">> :> "Sand") @@ (<<"Wind", "Stone">> :> "Sand") @@
    (<<"Mud", "Plant">> :> "Swamp") @@ (<<"Plant", "Mud">> :> "Swamp") @@
    (<<"Plant", "Plant">> :> "Forest") @@
    (<<"Sand", "Sand">> :> "Desert") @@
    (<<"Energy", "Plant">> :> "Life") @@ (<<"Plant", "Energy">> :> "Life")

\* CombinationRegistry::isValidCombination
isValidCombination(e1, e2) == <<e1, e2>> \in DOMAIN combinations

\* CombinationRegistry::getResult: "" when the pair has no entry
getResult(e1, e2) ==
    IF <<e1, e2>> \in DOMAIN combinations THEN combinations[<<e1, e2>>] ELSE ""

----------------------------------------------------------------------------
(* Instances.  A shared_ptr<GameObject> that points into the registry is   *)
(* the position of the instance there; one that outlives its instance      *)
(* holds the instance itself.                                              *)

\* GameObject::GameObject: isDragging starts false, the sprite colour is white
GameObject(elem, p, time) ==
    [element |-> elem, pos |-> p, creationTime |-> time,
     isDragging |-> FALSE, rejected |-> FALSE]

\* draggingObject = nullptr
NoObject == [at |-> 0, gone |-> <<>>]

\* if (draggingObject)
Dragging == draggingObject.at # 0 \/ draggingObject.gone # <<>>

\* *draggingObject
Dragged == IF draggingObject.at # 0 THEN objects[draggingObject.at]
           ELSE draggingObject.gone[1]

\* objs without the positions in drop (erase keeps the order of the rest)
RECURSIVE EraseAll(_, _)
EraseAll(objs, drop) ==
    IF objs = <<>> THEN <<>>
    ELSE LET rest == EraseAll(Tail(objs), {i - 1 : i \in drop \ {1}})
         IN  IF 1 \in drop THEN rest ELSE <<Head(objs)>> \o rest

----------------------------------------------------------------------------
(* Game::handleEvents, left button pressed (main.cpp:740-780).             *)

\* the catalog entries with a button, in the order of the sidebar loop: the
\* k-th of them is reached with discoveredIndex = k - 1
ShownEntries ==
    SelectSeq([i \in 1..Len(elements) |-> i], LAMBDA i : elements[i].discovered)

\* the click area of the button drawn with this discoveredIndex
ClickArea(discoveredIndex) ==
    Rect(705, 10 + discoveredIndex * 30 - sidebarScroll, 100, 30)

\* the button with this discoveredIndex is shown and holds the point
OnButton(discoveredIndex, mousePos) ==
    /\ ClickArea(discoveredIndex).top >= -30
    /\ ClickArea(discoveredIndex).top <= WindowHeight
    /\ Contains(ClickArea(discoveredIndex), mousePos)

\* A capacity test that lets a full registry take one more.
UnderCapacityInclusive(objs) == Len(objs) <= maxObjects

\* A capacity test that refuses the last place of the registry.
UnderCapacityStrict(objs) == Len(objs) < maxObjects - 1

\* objects.size() < maxObjects
UnderCapacity(objs) == Len(objs) < maxObjects

\* the positions in shown (the ShownEntries) of the buttons that hold the point
ButtonsAt(shown, mousePos) ==
    {k \in 1..Len(shown) : OnButton(k - 1, mousePos)}

\* the catalog entry whose button spawns an instance for this press, 0 = none:
\* the first entry whose button holds the point while under capacity
SpawnEntry(shown, mousePos) ==
    LET hits == {k \in ButtonsAt(shown, mousePos) : UnderCapacity(objects)}
    IN  IF hits = {} THEN 0
        ELSE shown[CHOOSE k \in hits : \A j \in hits : k <= j]

\* obj->isDragging = true on the picked instance, nothing else touched
Pick(objs, k) == [objs EXCEPT ![k].isDragging = TRUE]

\* the first instance, in registry order, whose bounds hold the point, 0 = none
FirstUnder(objs, mousePos) ==
    LET under == {i \in 1..Len(objs) : Contains(Bounds(objs[i]), mousePos)}
    IN  IF under = {} THEN 0 ELSE CHOOSE i \in under : \A j \in under : i <= j

\* clock.getElapsedTime(): never less than the reading before
Readings == clock..Min(clock + 1, MaxTime)

\* A press that lands on nothing (no button, no instance) changes nothing
\* and is not a step of the model.
MouseButtonPressed(mousePos) ==
    LET shown   == ShownEntries
        e       == SpawnEntry(shown, mousePos)
        refused == e = 0 /\ ButtonsAt(shown, mousePos) # {}
    IN  /\ \E time \in (IF e # 0 THEN Readings ELSE {clock}) :
            LET objs1 == IF e # 0 THEN Append(objects, GameObject(e, SpawnPos, time))
                         ELSE objects
                k     == FirstUnder(objs1, mousePos)
            IN  /\ e # 0 \/ k # 0 \/ refused
                /\ elements' = IF e # 0
                               THEN [elements EXCEPT ![e].creationCount = @ + 1]
                               ELSE elements
                /\ objects' = IF k # 0 THEN Pick(objs1, k) ELSE objs1
                /\ draggingObject' = IF k # 0 THEN [at |-> k, gone |-> <<>>]
                                     ELSE draggingObject
                /\ clock' = time
                /\ created' = IF e # 0 THEN created + 1 ELSE created
                /\ last' = [ev |-> "down",
                            out |-> IF e # 0 THEN "spawn"
                                    ELSE IF refused THEN "refused" ELSE "pick",
                            n |-> Len(objects)]
        /\ UNCHANGED <<invalidMarkTime, invalidMarkPos, query, maxObjects>>

----------------------------------------------------------------------------
(* Game::checkCollisions (main.cpp:823-884).                               *)

\* element->name
NameOf(o) == ElementNames[o.element]

\* An erase that forgets the consumed inputs.
EraseConsumedNone(objs, toRemove) == objs

\* objects.erase(remove_if(... found in toRemove ...)); toRemove holds the
\* registry positions of the instances pushed on it
EraseConsumed(objs, toRemove) == EraseAll(objs, toRemove)

\* A discovery that counts and forgets the flag.
DiscoverCountOnly(elems, e) == [elems EXCEPT ![e].creationCount = @ + 1]

\* A discovery that forgets every earlier one.
DiscoverForgetful(elems, e) ==
    [i \in DOMAIN elems |->
        IF i = e THEN [discovered |-> TRUE, creationCount |-> elems[i].creationCount + 1]
        ELSE [elems[i] EXCEPT !.discovered = FALSE]]

\* A discovery that forgets to count.
DiscoverUncounted(elems, e) == [elems EXCEPT ![e].discovered = TRUE]

\* elem->discovered = true; elem->creationCount++
Discover(elems, e) ==
    [elems EXCEPT ![e].discovered = TRUE, ![e].creationCount = @ + 1]

\* The result stamped with the dragged instance's own creation time.
ResultObjectOldTime(e, dragged, other, time) ==
    GameObject(e, Midpoint(dragged.pos, other.pos), dragged.creationTime)

\* make_shared<GameObject>(elem, ..., midpoint of the two, time)
ResultObject(e, dragged, other, time) ==
    GameObject(e, Midpoint(dragged.pos, other.pos), time)

\* invalidMarkTime = time + 1.0f
MissExpiry(time, old) == time + 1

\* A miss that ends the scan, as a break in the else branch would.
AfterMissStop(i, objs) == Len(objs) + 1

\* after a miss the loop goes on with the next instance (no break)
AfterMiss(i, objs) == i + 1

\* the for loop over objects from position i on; at is the registry position
\* of the dragged instance (0 when it is not in the registry), st is what the
\* loop has done so far.  A hit ends the loop (break), a miss goes on.
RECURSIVE CollisionLoop(_, _, _, _, _)
CollisionLoop(i, at, dragged, time, st) ==
    IF i > Len(st.objects) THEN st
    ELSE
      LET other == st.objects[i] IN
      IF i = at \/ other.isDragging
      THEN CollisionLoop(i + 1, at, dragged, time, st)
      ELSE IF ~Intersects(Bounds(dragged), Bounds(other))
      THEN CollisionLoop(i + 1, at, dragged, time, st)
      ELSE
        LET result == getResult(NameOf(dragged), NameOf(other))
        IN  IF result # ""
            THEN LET e == ElemIndex(result) IN
                 [st EXCEPT
                    !.hit = TRUE,
                    !.toRemove = {at, i} \ {0},
                    !.elements = IF e # 0 THEN Discover(@, e) ELSE @,
                    !.objects = IF e # 0
                                THEN Append(@, ResultObject(e, dragged, other, time))
                                ELSE @]
            ELSE CollisionLoop(AfterMiss(i, st.objects), at, dragged, time,
                 [st EXCEPT
                    !.invalidMarkPos = Midpoint(dragged.pos, other.pos),
                    !.invalidMarkTime = MissExpiry(time, @),
                    !.objects[i].rejected = TRUE,
                    !.missed = TRUE])

checkCollisions(at, dragged, time) ==
    LET st == CollisionLoop(1, at, dragged, time,
                  [objects |-> objects, elements |-> elements, toRemove |-> {},
                   invalidMarkTime |-> invalidMarkTime,
                   invalidMarkPos |-> invalidMarkPos, missed |-> FALSE,
                   hit |-> FALSE])
    IN  [st EXCEPT !.objects = IF st.toRemove # {}
                               THEN EraseConsumed(@, st.toRemove) ELSE @]

----------------------------------------------------------------------------
(* Game::handleEvents, left button released (main.cpp:783-808).            *)

\* draggingObject->isDragging = false, seen in the registry when the
\* instance is still at position at of it
StopDragging(objs, at) ==
    IF at # 0 THEN [objs EXCEPT ![at].isDragging = FALSE] ELSE objs

\* A trash drop that forgets to erase.
TrashRemoveNone(objs, at) == objs

\* objects.erase(remove_if(... o == draggingObject ...)): the dragged
\* instance leaves the registry when it is still in it
TrashRemove(objs, at) == EraseAll(objs, {at} \ {0})

MouseButtonReleased(time) ==
    /\ Dragging
    /\ clock' = time
    /\ UNCHANGED <<query, maxObjects>>
    /\ draggingObject' = NoObject
    /\ IF Intersects(Bounds(Dragged), TrashBounds)
       THEN /\ objects' = TrashRemove(objects, draggingObject.at)
            /\ UNCHANGED <<elements, invalidMarkTime, invalidMarkPos, created>>
            /\ last' = [ev |-> "up", out |-> "trash", n |-> Len(objects)]
       ELSE
         LET st == checkCollisions(draggingObject.at, Dragged, time) IN
            /\ objects' = IF st.hit THEN st.objects
                          ELSE StopDragging(st.objects, draggingObject.at)
            /\ elements' = st.elements
            /\ created' = created + (Len(st.objects) + Cardinality(st.toRemove) - Len(objects))
            /\ invalidMarkTime' = st.invalidMarkTime
            /\ invalidMarkPos' = st.invalidMarkPos
            /\ last' = [ev |-> "up",
                        out |-> IF st.hit THEN "combine"
                                ELSE IF st.missed THEN "reject" ELSE "drop",
                        n |-> Len(objects)]

----------------------------------------------------------------------------
(* Game::handleEvents, mouse moved (main.cpp:811-815).                     *)

MouseMoved(mousePos) ==
    LET to == <<mousePos[1] - DragAnchor[1], mousePos[2] - DragAnchor[2]>> IN
    /\ Dragging
    /\ IF draggingObject.at # 0
       THEN /\ objects' = [objects EXCEPT ![draggingObject.at].pos = to]
            /\ draggingObject' = draggingObject
       ELSE /\ objects' = objects
            /\ draggingObject' = [draggingObject EXCEPT !.gone[1].pos = to]
    /\ last' = [ev |-> "move", out |-> "moved", n |-> Len(objects)]
    /\ UNCHANGED <<elements, invalidMarkTime, invalidMarkPos, clock, created, query,
                   maxObjects>>

----------------------------------------------------------------------------
(* Game::update (main.cpp:889-905).  Its time argument is not used.        *)

\* A min_element that returns the last of the smallest.
OldestIndexLastTie(objs) ==
    CHOOSE i \in 1..Len(objs) :
        /\ \A j \in 1..Len(objs) : objs[i].creationTime <= objs[j].creationTime
        /\ \A j \in (i + 1)..Len(objs) : objs[j].creationTime > objs[i].creationTime

\* std::min_element on creationTime: the first of the smallest
OldestIndex(objs) ==
    CHOOSE i \in 1..Len(objs) :
        /\ \A j \in 1..Len(objs) : objs[i].creationTime <= objs[j].creationTime
        /\ \A j \in 1..(i - 1) : objs[j].creationTime > objs[i].creationTime

\* A loop test that tolerates one instance too many.
OverCapacityLax(objs) == Len(objs) > maxObjects + 1

\* objects.size() > maxObjects
OverCapacity(objs) == Len(objs) > maxObjects

\* while (over capacity) objects.erase(min_element(...)); w holds the
\* registry and the dragged pointer
RECURSIVE EvictOldest(_)
EvictOldest(w) ==
    IF OverCapacity(w.objects)
    THEN LET k == OldestIndex(w.objects) IN
         EvictOldest(
           [objects |-> EraseAll(w.objects, {k}),
            dragging |->
              IF w.dragging.at = k THEN [at |-> 0, gone |-> <<w.objects[k]>>]
              ELSE IF w.dragging.at > k THEN [w.dragging EXCEPT !.at = @ - 1]
              ELSE w.dragging])
    ELSE w

\* A tick that leaves the colours as they are.
ResetColorsNone(objs) == objs

\* obj->sprite.setColor(White) on every instance of the registry
ResetColors(objs) == [i \in 1..Len(objs) |-> [objs[i] EXCEPT !.rejected = FALSE]]

\* update() as a function of the registry and the dragged pointer
Tick(objs, dragging) ==
    LET w == EvictOldest([objects |-> objs, dragging |-> dragging])
    IN  [objects |-> ResetColors(w.objects), dragging |-> w.dragging]

update ==
    LET w == Tick(objects, draggingObject) IN
    /\ objects' = w.objects
    /\ draggingObject' = w.dragging
    /\ last' = [ev |-> "tick",
                out |-> IF Len(w.objects) < Len(objects) THEN "evicted" ELSE "none",
                n |-> Len(objects)]
    /\ UNCHANGED <<elements, invalidMarkTime, invalidMarkPos, clock, created, query,
                   maxObjects>>

----------------------------------------------------------------------------
(* The event loop: Game::run takes events and ticks in any order.          *)

\* Game::run (main.cpp:683-688): step is the statement the loop runs next,
\* "events" while handleEvents polls, then "update", then "draw"; flagged is
\* history: an event handled since the last draw left an instance tinted.
AtEvents == [step |-> "events", flagged |-> FALSE]

\* the pointer positions the model samples; each less the drag anchor is even
PtOrigin == <<425, 325>>      \* on the spawn position
PtTrash  == <<45, 565>>       \* on the trash bin
PtButton(k) == <<755, 25 + 30 * k>>   \* on the k-th shown sidebar button

\* instances are dragged onto the first sidebar button or onto the trash bin
MovePoints == {PtButton(0), PtTrash}

\* the pointer goes down on the spawn position or on one of the first buttons
PressPoints == {PtOrigin} \cup {PtButton(k) : k \in 0..MaxButton}

NoQuery == [e1 |-> "", e2 |-> "", valid |-> FALSE, result |-> ""]

\* the press at this point makes an instance
Spawns(mousePos) == SpawnEntry(ShownEntries, mousePos) # 0

\* The events of a free game: any press, release or move of the sampled
\* points, and the tick of the frame.  Presses that spawn are offered while
\* fewer than MaxCreated instances were made.
Press(mousePos) ==
    /\ Spawns(mousePos) => created < MaxCreated
    /\ MouseButtonPressed(mousePos)
    /\ UNCHANGED <<play, frame>>

Release(time) == MouseButtonReleased(time) /\ UNCHANGED <<play, frame>>

Move(mousePos) == MouseMoved(mousePos) /\ UNCHANGED <<play, frame>>

Frame == update /\ UNCHANGED <<play, frame>>

Init ==
    /\ maxObjects = Capacity
    /\ play = 0
    /\ frame = AtEvents
    /\ elements = InitElements
    /\ objects = <<>>
    /\ draggingObject = NoObject
    /\ invalidMarkTime = 0
    /\ invalidMarkPos = <<0, 0>>
    /\ clock = 0
    /\ created = 0
    /\ last = [ev |-> "init", out |-> "none", n |-> 0]
    /\ query = NoQuery

Next ==
    \/ \E p \in PressPoints : Press(p)
    \/ \E t \in Readings : Release(t)
    \/ \E p \in MovePoints : Move(p)
    \/ Frame

Spec == Init /\ [][Next]_vars

----------------------------------------------------------------------------
(* Game::update alone, applied to any registry of up to maxObjects +       *)
(* MaxOver instances: the instances stand in a row, so that each can be    *)
(* told from the others, with any creation times and any of them dragged.  *)

InitTick ==
    /\ maxObjects = Capacity
    /\ play = 0
    /\ frame = AtEvents
    /\ elements = InitElements
    /\ \E n \in 0..(maxObjects + MaxOver) :
        \E times \in [1..n -> 0..MaxTime] :
            \E at \in 0..n :
                /\ objects = [i \in 1..n |->
                       [GameObject(1, <<100 * i, 300>>, times[i])
                            EXCEPT !.isDragging = (i = at)]]
                /\ draggingObject = [at |-> at, gone |-> <<>>]
    /\ invalidMarkTime = 0
    /\ invalidMarkPos = <<0, 0>>
    /\ clock = MaxTime
    /\ created = Len(objects)
    /\ last = [ev |-> "init", out |-> "none", n |-> Len(objects)]
    /\ query = NoQuery

NextTick == Frame

SpecTick == InitTick /\ [][NextTick]_vars

----------------------------------------------------------------------------
(* The combination registry alone: isValidCombination and getResult asked  *)
(* about any two catalog names.                                            *)

Names == {ElementNames[i] : i \in 1..Len(ElementNames)}

Lookup(e1, e2) ==
    /\ query' = [e1 |-> e1, e2 |-> e2,
                 valid |-> isValidCombination(e1, e2),
                 result |-> getResult(e1, e2)]
    /\ UNCHANGED <<elements, objects, draggingObject, invalidMarkTime,
                   invalidMarkPos, clock, created, last, maxObjects>>

NextLookup == \E e1 \in Names, e2 \in Names : Lookup(e1, e2) /\ UNCHANGED <<play, frame>>

SpecLookup == Init /\ [][NextLookup]_vars

----------------------------------------------------------------------------
(* A press alone, from any idle registry of up to maxObjects instances:     *)
(* Fire and Water instances, each on the spawn position or parked under     *)
(* the first sidebar button, inserted at non-decreasing times.              *)

ParkedPos == <<PtButton(0)[1] - DragAnchor[1], PtButton(0)[2] - DragAnchor[2]>>

InitPress ==
    /\ maxObjects = Capacity
    /\ play = 0
    /\ frame = AtEvents
    /\ elements = InitElements
    /\ \E n \in 0..maxObjects :
        \E els \in [1..n -> 1..2] :
            \E parked \in SUBSET (1..n) :
                \E times \in [1..n -> 0..MaxTime] :
                    /\ \A i \in 1..n : \A j \in i..n : times[i] <= times[j]
                    /\ objects = [i \in 1..n |->
                           GameObject(els[i],
                                      IF i \in parked THEN ParkedPos ELSE SpawnPos,
                                      times[i])]
    /\ draggingObject = NoObject
    /\ invalidMarkTime = 0
    /\ invalidMarkPos = <<0, 0>>
    /\ clock = MaxTime
    /\ created = 0
    /\ last = [ev |-> "init", out |-> "none", n |-> Len(objects)]
    /\ query = NoQuery

NextPress == \E p \in PressPoints : Press(p)

SpecPress == InitPress /\ [][NextPress]_vars

----------------------------------------------------------------------------
(* A release alone, from any registry of up to maxObjects Fire, Water and  *)
(* Energy instances of which one is dragged.  The dragged one is on the    *)
(* spawn position or on the edge of the trash bin, the others are on the   *)
(* spawn position or beside the trash bin, where the dragged one overlaps  *)
(* them from the edge of the bin.  The catalog counts what it took to make *)
(* the registry: one spawn for each Fire and Water, two Fires and one      *)
(* combination for each Energy; the instances in front of an Energy were   *)
(* in the registry with the two Fires it was made of.                      *)

OnTrashEdge == <<60, 500>>
BesideTrash == <<80, 480>>

\* how many instances of the sequence are of element e
CountOf(kinds, e) == Cardinality({i \in DOMAIN kinds : kinds[i] = e})

\* the catalog after the spawns and combinations that made these instances
ElementsFor(kinds) ==
    [i \in DOMAIN InitElements |->
        IF i = Fire
        THEN [InitElements[i] EXCEPT
                 !.creationCount = CountOf(kinds, Fire) + 2 * CountOf(kinds, Energy)]
        ELSE IF i = Water
        THEN [InitElements[i] EXCEPT !.creationCount = CountOf(kinds, Water)]
        ELSE IF i = Energy
        THEN [discovered |-> CountOf(kinds, Energy) > 0,
              creationCount |-> CountOf(kinds, Energy)]
        ELSE InitElements[i]]

InitRelease ==
    /\ maxObjects = Capacity
    /\ play = 0
    /\ frame = AtEvents
    /\ \E n \in 1..maxObjects :
        \E kinds \in [1..n -> {Fire, Water, Energy}] :
            \E at \in 1..n :
                \E spots \in [1..n -> {SpawnPos, BesideTrash}] :
                    \E edge \in BOOLEAN :
                        /\ \A i \in 1..n : kinds[i] = Energy => i - 1 <= maxObjects - 2
                        /\ objects = [i \in 1..n |->
                               [GameObject(kinds[i],
                                           IF i # at THEN spots[i]
                                           ELSE IF edge THEN OnTrashEdge ELSE SpawnPos,
                                           0)
                                    EXCEPT !.isDragging = (i = at)]]
                        /\ spots[at] = SpawnPos
                        /\ draggingObject = [at |-> at, gone |-> <<>>]
                        /\ elements = ElementsFor(kinds)
                        /\ created = CountOf(kinds, Fire) + CountOf(kinds, Water)
                                        + 3 * CountOf(kinds, Energy)
    /\ invalidMarkTime = 0
    /\ invalidMarkPos = <<0, 0>>
    /\ clock = 0
    /\ last = [ev |-> "init", out |-> "none", n |-> Len(objects)]
    /\ query = NoQuery

NextRelease == \E t \in Readings : Release(t)

SpecRelease == InitRelease /\ [][NextRelease]_vars

----------------------------------------------------------------------------
(* A game played to discover everything.  The player works on the spawn    *)
(* position and keeps ingredients on two shelves away from it and from the *)
(* sidebar; what was discovered and is no longer needed goes to the trash. *)
(* The events are those of the script, in order; the event loop handles    *)
(* each of them as soon as it is sent.                                     *)

PtShelfA == <<225, 125>>
PtShelfB == <<225, 225>>

Down(p)  == [ev |-> "down", at |-> p]
Moved(p) == [ev |-> "move", at |-> p]
Lift     == [ev |-> "up", at |-> <<0, 0>>]

\* a press on the k-th sidebar button: the basic elements hold the first four
Spawn(k) == <<Down(PtButton(k))>>
\* pick the first instance on the spawn position and drop it where it is
Join == <<Down(PtOrigin), Lift>>
\* drag the first instance under a to b and drop it there
Carry(a, b) == <<Down(a), Moved(b), Lift>>
\* two basic elements combined on the spawn position
Basic(j, k) == Spawn(j) \o Spawn(k) \o Join
\* a basic element combined with what lies on the spawn position
Add(k) == Spawn(k) \o Join
Discard(a) == Carry(a, PtTrash)

\* Fire + Earth = Lava, Lava + Air = Stone, Air + Air = Wind,
\* Stone + Wind = Sand, left on shelf B
SandOnShelfB ==
    Basic(0, 2) \o Add(3) \o Carry(PtOrigin, PtShelfB)
        \o Basic(3, 3) \o Carry(PtOrigin, PtShelfB)

\* Water + Earth = Mud, Fire + Fire = Energy, Mud + Energy = Plant, left
\* on shelf B
PlantOnShelfB ==
    Basic(1, 2) \o Carry(PtOrigin, PtShelfB)
        \o Basic(0, 0) \o Carry(PtOrigin, PtShelfB)

Script ==
    \* Steam, Cloud, Rain
    Basic(0, 1) \o Add(3) \o Add(1) \o Discard(PtOrigin)
    \* Smoke, Mist, Dust, Ocean
    \o Basic(0, 3) \o Discard(PtOrigin)
    \o Basic(1, 3) \o Discard(PtOrigin)
    \o Basic(2, 3) \o Discard(PtOrigin)
    \o Basic(1, 1) \o Discard(PtOrigin)
    \* Energy, Lightning
    \o Basic(0, 0) \o Add(3) \o Discard(PtOrigin)
    \* Wind, Ice
    \o Basic(3, 3) \o Add(1) \o Discard(PtOrigin)
    \* Lava, Mountain, Volcano
    \o Basic(0, 2) \o Carry(PtOrigin, PtShelfB)
    \o Basic(2, 2) \o Carry(PtOrigin, PtShelfB) \o Discard(PtShelfB)
    \* Stone, Sand, Desert
    \o SandOnShelfB \o Carry(PtShelfB, PtShelfA)
    \o SandOnShelfB \o Carry(PtShelfB, PtShelfA) \o Discard(PtShelfA)
    \* Mud, Plant, Swamp
    \o PlantOnShelfB \o Basic(1, 2) \o Carry(PtOrigin, PtShelfB) \o Discard(PtShelfB)
    \* Life
    \o PlantOnShelfB \o Basic(0, 0) \o Carry(PtOrigin, PtShelfB) \o Discard(PtShelfB)
    \* Forest
    \o PlantOnShelfB \o Carry(PtShelfB, PtShelfA)
    \o PlantOnShelfB \o Carry(PtShelfB, PtShelfA) \o Discard(PtShelfA)

InitDiscover ==
    /\ maxObjects = DiscoverCapacity
    /\ play = 1
    /\ frame = AtEvents
    /\ elements = InitElements
    /\ objects = <<>>
    /\ draggingObject = NoObject
    /\ invalidMarkTime = 0
    /\ invalidMarkPos = <<0, 0>>
    /\ clock = 0
    /\ created = 0
    /\ last = [ev |-> "init", out |-> "none", n |-> 0]
    /\ query = NoQuery

\* the next event of the script is sent and handled
NextDiscover ==
    /\ play <= Len(Script)
    /\ play' = play + 1
    /\ UNCHANGED frame
    /\ \/ Script[play].ev = "down" /\ MouseButtonPressed(Script[play].at)
       \/ Script[play].ev = "move" /\ MouseMoved(Script[play].at)
       \/ Script[play].ev = "up" /\ \E t \in Readings : MouseButtonReleased(t)

SpecDiscover == InitDiscover /\ [][NextDiscover]_vars /\ WF_vars(NextDiscover)

----------------------------------------------------------------------------
(* Game::run as it is written (main.cpp:681-689): handleEvents handles the *)
(* events that are queued, one after the other, until pollEvent finds the  *)
(* queue empty; then update runs, then draw, and the next frame begins.    *)
(* Any number of events of the free game may be queued in a frame.         *)

\* some instance of the registry carries the tint of a rejected combination
Tinted(objs) == \E i \in 1..Len(objs) : objs[i].rejected

\* the event was handled inside handleEvents' polling loop
Handled ==
    /\ frame' = [frame EXCEPT !.flagged = @ \/ Tinted(objects')]
    /\ UNCHANGED play

PollPress(mousePos) ==
    /\ frame.step = "events"
    /\ Spawns(mousePos) => created < MaxCreated
    /\ MouseButtonPressed(mousePos)
    /\ Handled

PollRelease(time) ==
    /\ frame.step = "events"
    /\ MouseButtonReleased(time)
    /\ Handled

PollMove(mousePos) ==
    /\ frame.step = "events"
    /\ MouseMoved(mousePos)
    /\ Handled

\* pollEvent finds the queue empty and handleEvents returns
Drained ==
    /\ frame.step = "events"
    /\ frame' = [frame EXCEPT !.step = "update"]
    /\ UNCHANGED <<elements, objects, draggingObject, invalidMarkTime,
                   invalidMarkPos, clock, created, last, query, maxObjects, play>>

\* update(clock.getElapsedTime().asSeconds())
RunUpdate ==
    /\ frame.step = "update"
    /\ update
    /\ frame' = [frame EXCEPT !.step = "draw"]
    /\ UNCHANGED play

\* draw() renders the registry and changes nothing of it
draw ==
    /\ frame.step = "draw"
    /\ frame' = AtEvents
    /\ UNCHANGED <<elements, objects, draggingObject, invalidMarkTime,
                   invalidMarkPos, clock, created, last, query, maxObjects, play>>

InitFrame == Init

NextFrame ==
    \/ \E p \in PressPoints : PollPress(p)
    \/ \E t \in Readings : PollRelease(t)
    \/ \E p \in MovePoints : PollMove(p)
    \/ Drained
    \/ RunUpdate
    \/ draw

SpecFrame == InitFrame /\ [][NextFrame]_vars

----------------------------------------------------------------------------
(* C1.  Successful combination.                                            *)

\* the registry positions, in order
Positions(objs) == [i \in 1..Len(objs) |-> i]

\* an instance without its colour (the tint of a rejected combination)
Plain(o) == [o EXCEPT !.rejected = FALSE]

\* the instances other than the dragged one that are not being dragged,
\* overlap the dragged one and resolve with it
Partners ==
    {i \in 1..Len(objects) :
        /\ i # draggingObject.at
        /\ ~objects[i].isDragging
        /\ Intersects(Bounds(Dragged), Bounds(objects[i]))
        /\ getResult(NameOf(Dragged), NameOf(objects[i])) # ""}

\* this step is a release of an instance of the registry outside the trash
ReleaseOutsideTrash ==
    /\ Dragging
    /\ draggingObject.at # 0
    /\ last'.ev = "up"
    /\ ~Intersects(Bounds(Dragged), TrashBounds)

CombinationStep ==
    (ReleaseOutsideTrash /\ Partners # {}) =>
        LET d    == draggingObject.at
            o    == CHOOSE i \in Partners : \A j \in Partners : i <= j
            r    == ElemIndex(getResult(NameOf(objects[d]), NameOf(objects[o])))
            kept == SelectSeq(Positions(objects), LAMBDA i : i # d /\ i # o)
            n    == Len(objects')
        IN  /\ n = Len(objects) - 1
            /\ \A k \in 1..Len(kept) : Plain(objects'[k]) = Plain(objects[kept[k]])
            /\ objects'[n].element = r
            /\ objects'[n].creationTime = clock'
            /\ ~objects'[n].isDragging
            /\ elements'[r].discovered
            /\ elements'[r].creationCount = elements[r].creationCount + 1
            /\ \A e \in DOMAIN elements : e # r => elements'[e] = elements[e]

\* one Fire and one Water were spawned and one was released on the other
FireOnWater ==
    /\ last.out = "combine"
    /\ created = 3
    /\ elements[Fire].creationCount = 1
    /\ elements[Water].creationCount = 1

\* C1: a release outside the trash whose first overlapping non-dragged
\* resolving instance is O removes D and O, keeps the others in order,
\* appends one instance of the result R stamped with the release time, makes
\* R discovered with one more creation, and leaves every other element as it
\* was; one Fire released on one Water (or the reverse) right after start
\* leaves exactly one Steam, discovered and created once.
C1_SuccessfulCombination ==
    [][ /\ CombinationStep
        /\ FireOnWater' =>
              /\ Len(objects') = 1
              /\ objects'[1].element = Steam
              /\ elements'[Steam].discovered
              /\ elements'[Steam].creationCount = 1 ]_vars

\* a Fire and a Water became one Steam, stamped with a release time later
\* than both spawns
C1_Witness ==
    /\ FireOnWater
    /\ Len(objects) = 1
    /\ objects[1].element = Steam
    /\ objects[1].creationTime = 2
    /\ elements[Steam].creationCount = 1

----------------------------------------------------------------------------
(* C2.  Single dragger.                                                    *)

DraggingInstances == {i \in 1..Len(objects) : objects[i].isDragging}

\* C2: at most one instance of the registry has isDragging set, whatever
\* the order of presses, moves, releases and ticks.
C2_SingleDragger == Cardinality(DraggingInstances) <= 1

----------------------------------------------------------------------------
(* C3.  Capacity bound.                                                    *)

\* C3: when a tick has completed the registry holds at most maxObjects
\* instances.
C3_CapacityBound == last.ev = "tick" => Len(objects) <= maxObjects

\* a tick found the registry over capacity by MaxOver and trimmed it
C3_Witness ==
    /\ last.ev = "tick"
    /\ last.n = maxObjects + MaxOver
    /\ Len(objects) = maxObjects

----------------------------------------------------------------------------
(* C4.  A combination in a full registry.                                  *)

StrictlyIncreasing(objs) ==
    \A i \in 1..Len(objs) : \A j \in (i + 1)..Len(objs) :
        objs[i].creationTime < objs[j].creationTime

\* C4 as stated: when the registry holds maxObjects instances with strictly
\* increasing creation times and a release combines two of them, the tick
\* that follows has one instance to evict and leaves exactly maxObjects.
C4_Overshoot ==
    [][ (/\ last'.out = "combine"
         /\ Len(objects) = maxObjects
         /\ StrictlyIncreasing(objects))
        => /\ Len(objects') = maxObjects + 1
           /\ Len(Tick(objects', draggingObject').objects) = maxObjects ]_vars

\* C4, amended: when the registry holds maxObjects instances and a release
\* combines two of them, the registry holds maxObjects - 1 instances right
\* after the release, and the tick that follows removes nothing.
C4_NoOvershoot ==
    [][ /\ (last'.out = "combine" /\ Len(objects) = maxObjects)
            => /\ Len(objects') = maxObjects - 1
               /\ Tick(objects', draggingObject').objects = ResetColors(objects')
        /\ (last.out = "combine" /\ last.n = maxObjects /\ last'.ev = "tick")
            => /\ last'.out = "none"
               /\ Len(objects') = maxObjects - 1
               /\ objects' = ResetColors(objects) ]_vars

\* a combination has just happened in a full registry: the untouched
\* instance and the result are what is left, made at different times
C4_Witness ==
    /\ last.out = "combine"
    /\ last.n = maxObjects
    /\ Len(objects) = maxObjects - 1
    /\ created = maxObjects + 1
    /\ objects[1].creationTime > 0
    /\ objects[2].creationTime > objects[1].creationTime

----------------------------------------------------------------------------
(* C5.  Discovered elements and their creation counts.                     *)

\* C5 as stated: every discovered element was created at least once.
C5_DiscoveredCounted ==
    \A e \in DOMAIN elements :
        elements[e].discovered => elements[e].creationCount >= 1

\* C5, amended: every discovered element other than the four basic ones
\* was created at least once; the basic ones are discovered from the start,
\* whatever their count.
C5_DerivedDiscoveredCounted ==
    /\ \A e \in DOMAIN elements :
        (e > NumPrimitives /\ elements[e].discovered)
            => elements[e].creationCount >= 1
    /\ \A e \in 1..NumPrimitives : elements[e].discovered

\* a derived element is discovered while a basic one was never created
C5_Witness ==
    /\ elements[Steam].discovered
    /\ elements[Steam].creationCount = 1
    /\ elements[ElemIndex("Earth")].discovered
    /\ elements[ElemIndex("Earth")].creationCount = 0

----------------------------------------------------------------------------
(* C6.  Symmetry of the combination registry.                              *)

\* C6: whatever two catalog names are looked up, the lookup in the other
\* order gives the same validity and the same result.
C6_Symmetry ==
    /\ query.valid = isValidCombination(query.e2, query.e1)
    /\ query.result = getResult(query.e2, query.e1)

\* a registered pair of two different elements was looked up
C6_Witness ==
    /\ query.valid
    /\ query.e1 = "Steam"
    /\ query.e2 = "Air"
    /\ query.result = "Cloud"

----------------------------------------------------------------------------
(* C7.  Monotonic discovery.                                               *)

\* C7: no step takes the discovered flag of an element away.
C7_MonotonicDiscovery ==
    [][ \A e \in DOMAIN elements :
            elements[e].discovered => elements'[e].discovered ]_vars

\* an element discovered by a combination is still discovered after its
\* only instance went to the trash
C7_Witness ==
    /\ elements[ElemIndex("Energy")].discovered
    /\ last.out = "trash"
    /\ objects = <<>>

----------------------------------------------------------------------------
(* C8.  Rejected combination.                                              *)

\* the instances other than the dragged one whose bounds overlap it
Overlapped ==
    {i \in 1..Len(objects) :
        /\ i # draggingObject.at
        /\ Intersects(Bounds(Dragged), Bounds(objects[i]))}

\* an instance without its colour and its drag flag
Still(o) == [o EXCEPT !.rejected = FALSE, !.isDragging = FALSE]

\* C8: a release outside the trash that overlaps at least one instance
\* while no overlapping non-dragged instance resolves keeps every instance,
\* changes no element and sets the invalid marker to expire one second
\* after the release time.
C8_RejectedCombination ==
    [][ (ReleaseOutsideTrash /\ Overlapped # {} /\ Partners = {})
        => /\ Len(objects') = Len(objects)
           /\ \A i \in 1..Len(objects) : Still(objects'[i]) = Still(objects[i])
           /\ elements' = elements
           /\ invalidMarkTime' = clock' + 1 ]_vars

----------------------------------------------------------------------------
(* C9.  Oldest-first eviction.                                             *)

\* how many instances go before the i-th one: the older ones and, among
\* those of the same age, the earlier-inserted ones
Rank(objs, i) ==
    Cardinality({j \in 1..Len(objs) :
        \/ objs[j].creationTime < objs[i].creationTime
        \/ objs[j].creationTime = objs[i].creationTime /\ j < i})

\* C9: a tick on a registry of n > maxObjects instances removes exactly the
\* n - maxObjects instances that come first by creation time and then by
\* insertion, and leaves the others in their order.
C9_OldestFirst ==
    [][ (last'.ev = "tick" /\ Len(objects) > maxObjects)
        => LET k    == Len(objects) - maxObjects
               kept == SelectSeq(Positions(objects),
                                 LAMBDA i : Rank(objects, i) >= k)
           IN  /\ Len(objects') = maxObjects
               /\ \A r \in 1..maxObjects : Plain(objects'[r]) = Plain(objects[kept[r]]) ]_vars

\* a tick evicted MaxOver instances from the middle of the registry: the
\* first and the last of the row are still there
C9_Witness ==
    /\ last.ev = "tick"
    /\ last.n = maxObjects + MaxOver
    /\ Len(objects) = maxObjects
    /\ objects[1].pos = <<100, 300>>
    /\ objects[maxObjects].pos = <<100 * (maxObjects + MaxOver), 300>>

----------------------------------------------------------------------------
(* C10.  A spawn refused at capacity.                                      *)

\* C10: a press while the registry holds maxObjects instances, on a catalog
\* button as anywhere else, creates no instance and counts no creation.
C10_RefusedSpawn ==
    [][ (last'.ev = "down" /\ Len(objects) = maxObjects)
        => /\ Len(objects') = Len(objects)
           /\ \A i \in 1..Len(objects) : Still(objects'[i]) = Still(objects[i])
           /\ \A e \in DOMAIN elements :
                elements'[e].creationCount = elements[e].creationCount
           /\ created' = created ]_vars

\* a press on a catalog button was refused by a full registry
C10_Witness ==
    /\ last.ev = "down"
    /\ last.out = "refused"
    /\ last.n = maxObjects
    /\ Len(objects) = maxObjects

----------------------------------------------------------------------------
(* C11.  Which instance a press picks.                                     *)

\* the instances whose bounds hold the point
UnderPointer(objs, mousePos) ==
    {i \in 1..Len(objs) : Contains(Bounds(objs[i]), mousePos)}

\* C11: a press on a point that two or more instances hold makes the last
\* of them, in registry order, the dragged one.
C11_PickLast ==
    [][ \A p \in PressPoints :
            (MouseButtonPressed(p) /\ Cardinality(UnderPointer(objects', p)) >= 2)
            => /\ draggingObject'.at \in UnderPointer(objects', p)
               /\ \A i \in UnderPointer(objects', p) : i <= draggingObject'.at ]_vars

----------------------------------------------------------------------------
(* C12.  A spawn and the drag state.                                       *)

\* the controller is idle: nothing is dragged and no instance says it is
Idle == ~Dragging /\ DraggingInstances = {}

\* C12: from Idle, a press that spawns appends one instance of the entry's
\* element, counts one creation of it, and leaves the controller Idle,
\* wherever the instances of the registry are.
C12_SpawnStaysIdle ==
    [][ (Idle /\ last'.out = "spawn")
        => /\ Len(objects') = Len(objects) + 1
           /\ \A i \in 1..Len(objects) : Still(objects'[i]) = Still(objects[i])
           /\ LET e == objects'[Len(objects')].element
              IN  /\ elements'[e].creationCount = elements[e].creationCount + 1
                  /\ \A f \in DOMAIN elements : f # e => elements'[f] = elements[f]
           /\ Idle' ]_vars

----------------------------------------------------------------------------
(* C13.  The first valid overlap wins.                                     *)

\* the overlapped instances the scan looks at: those not being dragged
Examined == {i \in Overlapped : ~objects[i].isDragging}

\* C13: a release outside the trash looks at the overlapping non-dragged
\* instances in registry order.  With no resolving one nothing is combined.
\* Otherwise the first resolving one is consumed with D and one result of
\* that pair is appended: the overlapping instances in front of it, which
\* missed, stay and carry the mark of the miss, and the instances behind it
\* stay as they were, resolving or not.
C13_FirstValidWins ==
    [][ ReleaseOutsideTrash =>
        IF Partners = {}
        THEN Len(objects') = Len(objects) /\ created' = created
        ELSE LET d    == draggingObject.at
                 o    == CHOOSE i \in Partners : \A j \in Partners : i <= j
                 kept == SelectSeq(Positions(objects), LAMBDA i : i # d /\ i # o)
             IN  /\ created' = created + 1
                 /\ Len(objects') = Len(kept) + 1
                 /\ objects'[Len(objects')].element =
                        ElemIndex(getResult(NameOf(objects[d]), NameOf(objects[o])))
                 /\ \A k \in 1..Len(kept) :
                        /\ Plain(objects'[k]) = Plain(objects[kept[k]])
                        /\ objects'[k].rejected =
                              IF kept[k] < o /\ kept[k] \in Examined THEN TRUE
                              ELSE objects[kept[k]].rejected ]_vars

\* a Fire was released on an Energy and a Water: the Energy, first in the
\* registry, missed and is marked; the Water behind it made the Steam
C13_Witness ==
    /\ last.out = "combine"
    /\ Len(objects) = 2
    /\ objects[1].element = Energy
    /\ objects[1].rejected
    /\ objects[1].pos = SpawnPos
    /\ objects[2].element = Steam
    /\ objects[2].pos = SpawnPos

----------------------------------------------------------------------------
(* C14.  A release and the drag state.                                     *)

\* C14: after a release handled while an instance is dragged, whatever it
\* ended in, no instance of the registry has isDragging set and
\* draggingObject is empty.
C14_ReleaseReturnsToIdle ==
    [][ (Dragging /\ last'.ev = "up") => Idle' ]_vars

----------------------------------------------------------------------------
(* C15.  A drop on the trash bin.                                          *)

\* C15: a release of the dragged instance with its bounds on the trash bin
\* removes that instance and nothing else: every other instance stays as it
\* was, overlapped and resolving or not, no instance is made, and neither
\* the elements nor the invalid marker change.
C15_TrashDrop ==
    [][ (/\ Dragging
         /\ draggingObject.at # 0
         /\ last'.ev = "up"
         /\ Intersects(Bounds(Dragged), TrashBounds))
        => /\ Len(objects') = Len(objects) - 1
           /\ \A i \in 1..Len(objects') :
                objects'[i] = objects[IF i < draggingObject.at THEN i ELSE i + 1]
           /\ created' = created
           /\ elements' = elements
           /\ invalidMarkTime' = invalidMarkTime
           /\ invalidMarkPos' = invalidMarkPos ]_vars

\* a Fire went to the trash from the edge of the bin, where it overlapped
\* a Water: the Water is all that is left and no Steam was made
C15_Witness ==
    /\ last.out = "trash"
    /\ last.n = 2
    /\ Len(objects) = 1
    /\ objects[1].element = Water
    /\ objects[1].pos = BesideTrash
    /\ elements[Fire].creationCount = 1
    /\ ~elements[Steam].discovered

----------------------------------------------------------------------------
(* C16.  The registry at the event boundaries.                             *)

\* C16: after every event the registry holds at most maxObjects instances,
\* so that no tick ever has an instance to evict.
C16_NeverOverCapacity ==
    /\ Len(objects) <= maxObjects
    /\ last.out # "evicted"

\* a tick found a full registry and evicted nothing
C16_Witness ==
    /\ last.ev = "tick"
    /\ last.out = "none"
    /\ last.n = maxObjects
    /\ Len(objects) = maxObjects

----------------------------------------------------------------------------
(* C17.  What a combination does to the size of the registry.              *)

\* every rule of the combination registry names an element of the catalog
RulesNameCatalog ==
    \A pair \in DOMAIN combinations : ElemIndex(combinations[pair]) # 0

\* C17: every rule's result is in the catalog, and every release that hits
\* makes exactly one instance and leaves the registry one instance shorter.
C17_CombinationShrinksByOne ==
    [][ /\ RulesNameCatalog
        /\ last'.out = "combine"
            => /\ Len(objects') = Len(objects) - 1
               /\ created' = created + 1 ]_vars

\* two Fires became one Energy
C17_Witness ==
    /\ last.out = "combine"
    /\ last.n = 2
    /\ Len(objects) = 1
    /\ objects[1].element = Energy
    /\ created = 3

----------------------------------------------------------------------------
(* C18.  The elements of the instances.                                    *)

\* C18: every instance of the registry is of a discovered element.
C18_InstancesDiscovered ==
    \A i \in 1..Len(objects) : elements[objects[i].element].discovered

\* an instance of a derived element is in the registry next to a basic one
C18_Witness ==
    /\ Len(objects) = 2
    /\ objects[1].element = Fire
    /\ objects[2].element = ElemIndex("Ocean")
    /\ elements[ElemIndex("Ocean")].discovered

----------------------------------------------------------------------------
(* C20.  Derived elements: discovered and counted together.                *)

\* C20: a derived element is discovered exactly when an instance of it was
\* ever created.
C20_DerivedDiscoveredIffCounted ==
    \A e \in DOMAIN elements :
        e > NumPrimitives
            => (elements[e].discovered <=> elements[e].creationCount >= 1)

\* one derived element was made once, another one never
C20_Witness ==
    /\ elements[Energy].discovered
    /\ elements[Energy].creationCount = 1
    /\ ~elements[Steam].discovered
    /\ elements[Steam].creationCount = 0
    /\ last.out = "combine"

----------------------------------------------------------------------------
(* C19.  Every derived element can be discovered.                          *)

AllDiscovered == \A e \in DOMAIN elements : elements[e].discovered

\* C19: the game played from the initial state by spawns, drags and
\* releases alone gets every element of the catalog discovered, with the
\* registry within its capacity all along.
C19_AllDiscoverable ==
    /\ [](Len(objects) <= maxObjects)
    /\ <>AllDiscovered

\* the script is played out, everything is discovered and the registry is
\* empty again
C19_Witness ==
    /\ AllDiscovered
    /\ play = Len(Script) + 1
    /\ objects = <<>>
    /\ elements[ElemIndex("Forest")].creationCount = 1
    /\ elements[ElemIndex("Desert")].creationCount = 1

----------------------------------------------------------------------------
(* C21.  The tint of a rejected combination is never drawn.                *)

\* C21: in the frame loop (events, then the tick, then the draw) every tint
\* put on an instance by a missed combination while the events are handled
\* is taken off by the tick of the same frame: whenever draw is about to
\* run, no instance of the registry is tinted.
C21_NoRejectedAtDraw == frame.step = "draw" => ~Tinted(objects)

\* draw is about to run in a frame whose events left an instance tinted,
\* after the tick, with the marker of that rejection still set
C21_Witness ==
    /\ frame.step = "draw"
    /\ frame.flagged
    /\ last.ev = "tick"
    /\ objects # <<>>
    /\ invalidMarkTime = clock + 1

====
